---- MODULE Spec2Model ----
(***************************************************************************)
(* A model of the Intuit Customer Account Data client: the SAML-to-OAuth   *)
(* token exchange (saml.go), the request transport with its lazily         *)
(* acquired session token (client.go) and the public operations with the   *)
(* MFA challenge parser (intuit.go).                                       *)
(*                                                                         *)
(* Go strings that the code only passes around are TLA+ strings; strings   *)
(* the code takes apart (the WWW-Authenticate header) are sequences of     *)
(* one-character strings.  A Go panic is an outcome "panic": the process   *)
(* aborts and no later operation runs.                                     *)
(***************************************************************************)
EXTENDS Integers, Sequences, FiniteSets, TLC

VARIABLES
    SessionConfiguration,  \* the pointer of the package: nil, or the Configuration it points to
    configurations,        \* the tokens that the Configurations the caller has built hold
    last,        \* the last public operation: its inputs, its network calls, what it returned
    held,        \* the challenge session the caller holds from a login call
    fin,         \* the input of the function under study (function specifications)
    fout         \* its output, once it has run

vars == <<configurations, SessionConfiguration, last, held, fin, fout>>

(***************************************************************************)
(* Bounds of the model.                                                    *)
(***************************************************************************)
MaxHdrLen == 3      \* characters in a WWW-Authenticate header value
MaxPairs == 2       \* key=value pairs in a token response body
ClockSteps == 12    \* clock readings taken after each base instant
MaxGroups == 2      \* challenge groups in an MFA body
MaxKeys == 2        \* keys in one challenge-group mapping
MaxChoices == 2     \* choices after a question
MaxAnswers == 2     \* answers a caller puts in a challenge session

(***************************************************************************)
(* Small helpers.                                                          *)
(***************************************************************************)
SetMax(S) == CHOOSE x \in S : \A y \in S : y <= x

SetMin(S) == CHOOSE x \in S : \A y \in S : x <= y

SeqsUpTo(S, n) == UNION {[1..k -> S] : k \in 0..n}

Perms(S) == {p \in [1..Cardinality(S) -> S] : \A i, j \in DOMAIN p : p[i] = p[j] => i = j}

RECURSIVE Concat(_)
Concat(cs) == IF cs = <<>> THEN "" ELSE Head(cs) \o Concat(Tail(cs))

(***************************************************************************)
(* net/url QueryUnescape, as saml.go:73 uses it on the header value.       *)
(***************************************************************************)
HexDigits == <<"0", "1", "2", "3", "4", "5", "6", "7", "8", "9", "A", "B", "C", "D", "E", "F">>

HexLower == <<"0", "1", "2", "3", "4", "5", "6", "7", "8", "9", "a", "b", "c", "d", "e", "f">>

ishex(c) == \E i \in DOMAIN HexDigits : HexDigits[i] = c \/ HexLower[i] = c

unhex(c) == (CHOOSE i \in DOMAIN HexDigits : HexDigits[i] = c \/ HexLower[i] = c) - 1

\* The character of a byte value: the printable ones the headers here decode to.
Chr(n) ==
    CASE n = 61 -> "="
      [] n = 51 -> "3"
      [] n = 34 -> "\""
      [] n = 45 -> "-"
      [] OTHER -> "\\x" \o ToString(n)

\* First pass of unescape: every '%' must be followed by two hex digits.
EscapeError(s) ==
    \E i \in DOMAIN s :
        /\ s[i] = "%"
        /\ \/ i + 2 > Len(s)
           \/ ~ishex(s[i + 1])
           \/ ~ishex(s[i + 2])

RECURSIVE unescapeFrom(_, _)
unescapeFrom(s, i) ==
    IF i > Len(s) THEN <<>>
    ELSE IF s[i] = "%" THEN <<Chr(unhex(s[i + 1]) * 16 + unhex(s[i + 2]))>> \o unescapeFrom(s, i + 3)
    ELSE IF s[i] = "+" THEN <<" ">> \o unescapeFrom(s, i + 1)
    ELSE <<s[i]>> \o unescapeFrom(s, i + 1)

\* db, _ := url.QueryUnescape(h): the error is dropped, and with it db is "".
QueryUnescape(s) == IF EscapeError(s) THEN <<>> ELSE unescapeFrom(s, 1)

(***************************************************************************)
(* time.Time as Unix seconds and nanoseconds; Add and Format.              *)
(***************************************************************************)
Minute == 60          \* time.Minute, in seconds
SecondsPerDay == 86400

\* t.Add(d), d a whole number of seconds as both durations of saml.go are.
timeAdd(t, d) == [sec |-> t.sec + d, nsec |-> t.nsec]

\* The civil date of a day number (days since 1970-01-01), proleptic Gregorian: the
\* day of the 400-year era, then the year of the era, the day of the year (from
\* 1 March) and the month (from March).
civilOfMonth(era, yoe, doy, mp) ==
    [year |-> yoe + era * 400 + (IF mp < 10 THEN 0 ELSE 1),
     month |-> IF mp < 10 THEN mp + 3 ELSE mp - 9,
     day |-> doy - (153 * mp + 2) \div 5 + 1]

civilOfDayOfYear(era, yoe, doy) == civilOfMonth(era, yoe, doy, (5 * doy + 2) \div 153)

civilOfYear(era, doe, yoe) == civilOfDayOfYear(era, yoe, doe - (365 * yoe + yoe \div 4 - yoe \div 100))

civilOfEra(era, doe) ==
    civilOfYear(era, doe, (doe - doe \div 1460 + doe \div 36524 - doe \div 146096) \div 365)

civilFromDays(days) ==
    civilOfEra((days + 719468) \div 146097, (days + 719468) % 146097)

Pad2(n) == IF n < 10 THEN "0" \o ToString(n) ELSE ToString(n)

Pad4(n) ==
    IF n < 10 THEN "000" \o ToString(n)
    ELSE IF n < 100 THEN "00" \o ToString(n)
    ELSE IF n < 1000 THEN "0" \o ToString(n)
    ELSE ToString(n)

\* The fields of a civil date and a second of the day, and their text in the layout
\* "2006-01-02T15:04:05".
layoutFields(c, hh, mm, ss) ==
    [year |-> c.year, month |-> c.month, day |-> c.day, hour |-> hh, min |-> mm, sec |-> ss,
     text |-> Pad4(c.year) \o "-" \o Pad2(c.month) \o "-" \o Pad2(c.day) \o "T"
              \o Pad2(hh) \o ":" \o Pad2(mm) \o ":" \o Pad2(ss)]

layoutOfDay(days, rem) == layoutFields(civilFromDays(days), rem \div 3600, (rem % 3600) \div 60, rem % 60)

\* t.UTC().Format(layout): the whole second t lies in; the fraction is dropped, not
\* rounded.
formatLayout(t) == layoutOfDay(t.sec \div SecondsPerDay, t.sec % SecondsPerDay)

withMillis(f) == [f EXCEPT !.text = f.text \o ".000Z"]

formatTimeFromDuration_ignoresDuration(t, d) == withMillis(formatLayout(t))

\* fmt.Sprintf("%s.000Z", t.Add(d).UTC().Format(layout))
formatTimeFromDuration(t, d) == withMillis(formatLayout(timeAdd(t, d)))

(***************************************************************************)
(* oauth.AccessToken pointers and Go error values.                         *)
(***************************************************************************)
NilToken == [isNil |-> TRUE, Token |-> "", Secret |-> ""]

AccessToken(tok, sec) == [isNil |-> FALSE, Token |-> tok, Secret |-> sec]

NoErr == [kind |-> "nil", msg |-> "", headers |-> <<>>]

ErrorsNew(msg) == [kind |-> "errors.New", msg |-> msg, headers |-> <<>>]

\* oauth.HTTPExecuteError: the API answered with an error status; it keeps the headers.
HTTPExecuteError(hs) == [kind |-> "http", msg |-> "", headers |-> hs]

\* The error of json Decode on a body that is not JSON.
DecodeError == [kind |-> "decode", msg |-> "", headers |-> <<>>]

(***************************************************************************)
(* The token endpoint's answer to http.PostForm, and url.ParseQuery/Get.   *)
(***************************************************************************)
\* bValues.Get(key): the first value of the key, "" when the key is absent.
valuesGet(body, key) ==
    LET I == {i \in DOMAIN body : body[i].k = key}
    IN IF I = {} THEN "" ELSE body[SetMin(I)].v

\* The key file read and parse of SignatureValue: each failure panics.
KeyOutcomes == {"ok", "unreadable", "notPEM", "badKey"}

SamlURL == "https://oauth.intuit.com/oauth/v1/get_access_token_by_saml"

\* The validity window of the assertion (saml.go:50-53).
assertionTimes(t) ==
    [TimeNow |-> formatTimeFromDuration(t, 0),
     TimeBefore |-> formatTimeFromDuration(t, (0 - 5) * Minute),
     TimeAfter |-> formatTimeFromDuration(t, 10 * Minute)]

samlOutcome(a, panic, posted, tokens, err) ==
    [panic |-> panic, posted |-> posted, a |-> a, tokens |-> tokens, err |-> err]

\* The signing and the exchange of the assertion a (saml.go:55-83).
exchangeAssertion(a, key, post) ==
    IF key # "ok"
    THEN samlOutcome(a, TRUE, FALSE, NilToken, NoErr)
    ELSE IF post.err \/ post.status # 200
    THEN IF ~post.hasResp
         THEN \* resp is nil: resp.Header dereferences it
              samlOutcome(a, TRUE, TRUE, NilToken, NoErr)
         ELSE samlOutcome(a, FALSE, TRUE, AccessToken("", ""),
                          ErrorsNew(post.statusLine \o " " \o Concat(QueryUnescape(post.wwwAuth))))
    ELSE samlOutcome(a, FALSE, TRUE,
                     AccessToken(valuesGet(post.body, "oauth_token"), valuesGet(post.body, "oauth_token_secret")),
                     NoErr)

MakeSamlAssertion(t, key, post) == exchangeAssertion(assertionTimes(t), key, post)

(***************************************************************************)
(* ChallengeSession: the nil pointer, and the fields of a session.         *)
(***************************************************************************)
NoSession ==
    [isNil |-> TRUE, InstitutionId |-> "", LoginId |-> "", SessionId |-> "", NodeId |-> "",
     Challenges |-> <<>>, Answers |-> <<>>, contextType |-> 0]

(***************************************************************************)
(* JSON-shaped data as encoding/json decodes it into interface{}: nil, a   *)
(* string, a number, a []interface{} or a map[string]interface{}.  A map   *)
(* is kept as the pairs of the source text, in source order; the Go map    *)
(* holds the last value of each key and has no order of its own.           *)
(***************************************************************************)
JNull == [t |-> "null", s |-> "", a |-> <<>>, o |-> <<>>]

JStr(x) == [t |-> "str", s |-> x, a |-> <<>>, o |-> <<>>]

JNum(x) == [t |-> "num", s |-> x, a |-> <<>>, o |-> <<>>]

JArr(xs) == [t |-> "arr", s |-> "", a |-> xs, o |-> <<>>]

JObj(ps) == [t |-> "obj", s |-> "", a |-> <<>>, o |-> ps]

Pair(key, val) == [k |-> key, v |-> val]

Keys(m) == {m.o[i].k : i \in DOMAIN m.o}

\* m[key]: nil when the key is absent.
Lookup(m, key) ==
    LET I == {i \in DOMAIN m.o : m.o[i].k = key}
    IN IF I = {} THEN JNull ELSE m.o[SetMax(I)].v

\* headers.Get(key) on canonical header names: the first value, "" when absent.
headerGet(hs, key) ==
    LET I == {i \in DOMAIN hs : hs[i].k = key}
    IN IF I = {} THEN "" ELSE hs[SetMin(I)].v

(***************************************************************************)
(* parseChallengeSession.  `orders` resolves the iteration order of the    *)
(* Go maps: orders[g] is the order in which `range chal` visits the keys   *)
(* of group g.                                                             *)
(***************************************************************************)
\* The two context types sit in the const block after seven other constants:
\* `1 + iota` is 8 there, and the next line of the block is 9.
updateLoginType == 8
discoverAndAddType == 9

ParsePanic == [panic |-> TRUE, session |-> NoSession]

PanicAcc == [panic |-> TRUE, Question |-> "", Choices |-> <<>>, Challenges |-> <<>>]

\* for i, val := range vData
RECURSIVE vDataLoop(_, _, _)
vDataLoop(vData, i, challenge) ==
    IF challenge.panic \/ i > Len(vData) THEN challenge
    ELSE LET val == vData[i] IN
         IF i = 1
         THEN IF val.t = "str"
              THEN vDataLoop(vData, i + 1, [challenge EXCEPT !.Question = val.s, !.Choices = <<>>])
              ELSE PanicAcc
         ELSE IF val.t = "obj" /\ Lookup(val, "val").t = "str" /\ Lookup(val, "text").t = "str"
              THEN vDataLoop(vData, i + 1,
                             [challenge EXCEPT !.Choices =
                                 Append(@, [Value |-> Lookup(val, "val").s, Text |-> Lookup(val, "text").s])])
              ELSE PanicAcc

\* for _, v := range chal, visiting the keys in `order`
RECURSIVE chalLoop(_, _, _, _)
chalLoop(chal, order, n, acc) ==
    IF acc.panic \/ n > Len(order) THEN acc
    ELSE LET v == Lookup(chal, order[n]) IN
         IF v.t # "arr" THEN PanicAcc
         ELSE LET challenge == vDataLoop(v.a, 1, [panic |-> FALSE, Question |-> "", Choices |-> <<>>, Challenges |-> <<>>])
              IN IF challenge.panic THEN PanicAcc
                 ELSE chalLoop(chal, order, n + 1,
                               [acc EXCEPT !.Challenges =
                                   Append(@, [Question |-> challenge.Question, Choices |-> challenge.Choices])])

\* for _, c := range challenges
RECURSIVE challengesLoop(_, _, _, _)
challengesLoop(challenges, orders, g, acc) ==
    IF acc.panic \/ g > Len(challenges) THEN acc
    ELSE LET c == challenges[g] IN
         IF c.t # "obj" THEN PanicAcc
         ELSE challengesLoop(challenges, orders, g + 1, chalLoop(c, orders[g], 1, acc))

parseChallengeSession(contextType, data, err, orders) ==
    IF data.t # "obj" THEN ParsePanic
    ELSE IF err.kind # "http" THEN ParsePanic
    ELSE LET challenges == Lookup(data, "challenge") IN
         IF challenges.t # "arr" THEN ParsePanic
         ELSE LET acc == challengesLoop(challenges.a, orders, 1,
                                        [panic |-> FALSE, Question |-> "", Choices |-> <<>>, Challenges |-> <<>>])
              IN IF acc.panic THEN ParsePanic
                 ELSE [panic |-> FALSE,
                       session |-> [isNil |-> FALSE, InstitutionId |-> "", LoginId |-> "",
                                    SessionId |-> headerGet(err.headers, "Challengesessionid"),
                                    NodeId |-> headerGet(err.headers, "Challengenodeid"),
                                    Challenges |-> acc.Challenges, Answers |-> <<>>,
                                    contextType |-> contextType]]

\* The orders in which the runtime may visit the keys of each group's map.
RECURSIVE OrdersOf(_)
OrdersOf(cs) ==
    IF cs = <<>> THEN {<<>>}
    ELSE {<<p>> \o rest :
            p \in (IF Head(cs).t = "obj" THEN Perms(Keys(Head(cs))) ELSE {<<>>}),
            rest \in OrdersOf(Tail(cs))}

IterOrders(data) ==
    IF data.t = "obj" /\ Lookup(data, "challenge").t = "arr"
    THEN OrdersOf(Lookup(data, "challenge").a)
    ELSE {<<>>}

(***************************************************************************)
(* client.go: request, and the get/post/put helpers over it.               *)
(***************************************************************************)
BaseURL == "https://financialdatafeed.platform.intuit.com/v1/"
GET == "GET"
POST == "POST"
DELETE == "DELETE"
PUT == "PUT"

InstitutionXMLNS == "http://schema.intuit.com/platform/fdatafeed/institutionlogin/v1"
ChallengeXMLNS == "http://schema.intuit.com/platform/fdatafeed/challenge/v1"

\* The payloads of the login calls (intuit.go:31-41): the root element, its xmlns
\* attribute and the elements of its one child.
InstitutionLogin(credentials) ==
    [XMLName |-> "InstitutionLogin", XMLNS |-> InstitutionXMLNS, child |-> "credentials", items |-> credentials]

InstitutionLoginMFA(responses) ==
    [XMLName |-> "InstitutionLogin", XMLNS |-> InstitutionXMLNS, child |-> "challengeResponses", items |-> responses]

\* xml.MarshalIndent(body, "  ", "    ") as the lines of its output.  Every line
\* starts with the prefix and one indent per level of depth.
xmlIndent(depth) ==
    CASE depth = 0 -> "  "
      [] depth = 1 -> "      "
      [] depth = 2 -> "          "
      [] OTHER     -> "              "

\* A Credential: an element with the two fields as child elements.  The names and
\* values of the model have no character that EscapeText rewrites.
credentialLines(c) ==
    <<xmlIndent(2) \o "<credential>",
      xmlIndent(3) \o "<name>" \o c.k \o "</name>",
      xmlIndent(3) \o "<value>" \o c.v \o "</value>",
      xmlIndent(2) \o "</credential>">>

\* A ChallengeResponse: XMLNS is the attribute xmlns:v11, written also when it is
\* empty; Answer is innerxml, written as it is between the tags (nothing for a nil
\* Answer), so that the element stays on one line.
responseLine(r) ==
    xmlIndent(2) \o "<v11:response xmlns:v11=\"" \o r.XMLNS \o "\">" \o r.Answer \o "</v11:response>"

RECURSIVE itemLines(_, _)
itemLines(child, items) ==
    IF items = <<>> THEN <<>>
    ELSE (IF child = "credentials" THEN credentialLines(Head(items)) ELSE <<responseLine(Head(items))>>)
         \o itemLines(child, Tail(items))

childLines(child, items) ==
    IF items = <<>>
    THEN <<xmlIndent(1) \o "<" \o child \o "></" \o child \o ">">>
    ELSE <<xmlIndent(1) \o "<" \o child \o ">">> \o itemLines(child, items)
         \o <<xmlIndent(1) \o "</" \o child \o ">">>

MarshalIndent(body) ==
    <<xmlIndent(0) \o "<" \o body.XMLName \o " xmlns=\"" \o body.XMLNS \o "\">">>
    \o childLines(body.child, body.items)
    \o <<xmlIndent(0) \o "</" \o body.XMLName \o ">">>

\* One outbound network call: the token exchange POST or a signed API call.
SamlCall == [kind |-> "saml", method |-> POST, url |-> SamlURL, token |-> NilToken, headers |-> <<>>, payload |-> <<>>]

ApiCall(method, endpoint, tok, headers, payload) ==
    [kind |-> "api", method |-> method, url |-> BaseURL \o endpoint, token |-> tok,
     headers |-> <<Pair("Accept", "application/json"), Pair("Content-Type", "application/xml")>> \o headers,
     payload |-> payload]

\* json Decode / Unmarshal of a response body into data: data stays nil when the
\* body is not JSON.
decodedData(body) == IF body.valid THEN body.j ELSE JNull

\* What the pointer SessionConfiguration refers to: nothing, or a Configuration, of
\* which the model keeps the unexported oAuthToken.
NilConfiguration == [isNil |-> TRUE, oAuthToken |-> NilToken]

Configuration(tok) == [isNil |-> FALSE, oAuthToken |-> tok]

\* The pointer SessionConfiguration is nil.
NoConfiguration == SessionConfiguration.isNil

\* SessionConfiguration.oAuthToken, where there is a configuration to read it from.
oAuthToken == SessionConfiguration.oAuthToken

NeedsToken_always(tok) == TRUE

\* if SessionConfiguration.oAuthToken == nil
NeedsToken(tok) == tok.isNil

sentCalls_twice(calls, call) == calls \o <<call, call>>

\* res, err = c.Get / c.Post / c.Delete: the one signed call of the request
sentCalls(calls, call) == Append(calls, call)

requestOutcome(panic, tok, exchange, calls, data, err) ==
    [panic |-> panic, token |-> tok, exchanged |-> exchange, calls |-> calls, data |-> data, err |-> err]

\* The signed API call of request (client.go:28-62) with the token tok, after the
\* calls already made.
apiRequest(tok, exchange, calls, method, endpoint, body, headers, api) ==
    IF method \notin {GET, POST, DELETE}
    THEN \* no branch sets res: err is nil and res.Body dereferences a nil response
         requestOutcome(TRUE, tok, exchange, calls, JNull, NoErr)
    ELSE CASE api.kind = "ok" ->
                requestOutcome(FALSE, tok, exchange,
                               sentCalls(calls, ApiCall(method, endpoint, tok, headers, IF method = POST THEN MarshalIndent(body) ELSE <<>>)),
                               decodedData(api.body), IF api.body.valid THEN NoErr ELSE DecodeError)
           [] api.kind = "http" ->
                requestOutcome(FALSE, tok, exchange,
                               sentCalls(calls, ApiCall(method, endpoint, tok, headers, IF method = POST THEN MarshalIndent(body) ELSE <<>>)),
                               decodedData(api.body), HTTPExecuteError(api.headers))
           [] OTHER -> \* err.(oauth.HTTPExecuteError) on an error of another type
                requestOutcome(TRUE, tok, exchange,
                               sentCalls(calls, ApiCall(method, endpoint, tok, headers, IF method = POST THEN MarshalIndent(body) ELSE <<>>)),
                               JNull, NoErr)

\* request once the token exchange, if any, has returned saml (client.go:20-26).
requestAfterExchange(tok, saml, method, endpoint, body, headers, api) ==
    IF saml.panic
    THEN requestOutcome(TRUE, tok, TRUE, IF saml.posted THEN <<SamlCall>> ELSE <<>>, JNull, NoErr)
    ELSE IF saml.err.kind # "nil"
    THEN requestOutcome(FALSE, saml.tokens, TRUE, <<SamlCall>>, JNull, saml.err)
    ELSE apiRequest(saml.tokens, TRUE, <<SamlCall>>, method, endpoint, body, headers, api)

\* env is what the world answers during the call: the clock, the key file, the
\* answer of the token endpoint and the answer of the API.
request(tok, method, endpoint, body, headers, env) ==
    IF NoConfiguration
    THEN \* SessionConfiguration.oAuthToken dereferences the nil pointer (client.go:20)
         requestOutcome(TRUE, tok, FALSE, <<>>, JNull, NoErr)
    ELSE IF NeedsToken(tok)
    THEN requestAfterExchange(tok, MakeSamlAssertion(env.t, env.key, env.post),
                              method, endpoint, body, headers, env.api)
    ELSE apiRequest(tok, FALSE, <<>>, method, endpoint, body, headers, env.api)

post(tok, endpoint, body, headers, env) == request(tok, POST, endpoint, body, headers, env)

get(tok, endpoint, env) == request(tok, GET, endpoint, <<>>, <<>>, env)

\* put is called by intuit.go and defined in no source file.  It is the transport of
\* the specification: it performs the authenticated PUT, with the session token
\* acquired as request acquires it, and returns the decoded response or a typed HTTP
\* error with the headers and the body of the answer.
putPerformed(tok, exchange, calls, endpoint, body, headers, api) ==
    requestOutcome(FALSE, tok, exchange,
                   sentCalls(calls, ApiCall(PUT, endpoint, tok, headers, MarshalIndent(body))),
                   IF api.kind = "other" THEN JNull ELSE decodedData(api.body),
                   CASE api.kind = "ok" -> IF api.body.valid THEN NoErr ELSE DecodeError
                     [] api.kind = "http" -> HTTPExecuteError(api.headers)
                     [] OTHER -> HTTPExecuteError(<<>>))

putAfterExchange(tok, saml, endpoint, body, headers, api) ==
    IF saml.panic
    THEN requestOutcome(TRUE, tok, TRUE, IF saml.posted THEN <<SamlCall>> ELSE <<>>, JNull, NoErr)
    ELSE IF saml.err.kind # "nil"
    THEN requestOutcome(FALSE, saml.tokens, TRUE, <<SamlCall>>, JNull, saml.err)
    ELSE putPerformed(saml.tokens, TRUE, <<SamlCall>>, endpoint, body, headers, api)

put(tok, endpoint, body, headers, env) ==
    IF NoConfiguration
    THEN requestOutcome(TRUE, tok, FALSE, <<>>, JNull, NoErr)
    ELSE IF NeedsToken(tok)
    THEN putAfterExchange(tok, MakeSamlAssertion(env.t, env.key, env.post), endpoint, body, headers, env.api)
    ELSE putPerformed(tok, FALSE, <<>>, endpoint, body, headers, env.api)

(***************************************************************************)
(* intuit.go: the public operations, each on the outcome r of its request. *)
(* An outcome is what the operation returns: a value, a challenge session  *)
(* and an error, or a panic.                                               *)
(***************************************************************************)
Returned(value, session, err) == [panic |-> FALSE, value |-> value, session |-> session, err |-> err]

Panicked == [panic |-> TRUE, value |-> JNull, session |-> NoSession, err |-> NoErr]

\* data := res.(map[string]interface{}); return data[key].([]interface{}), err
listOf(r, key) ==
    IF r.panic THEN Panicked
    ELSE IF r.data.t # "obj" THEN Panicked
    ELSE IF Lookup(r.data, key).t # "arr" THEN Panicked
    ELSE Returned(Lookup(r.data, key), NoSession, r.err)

\* Account: account[0].(map[string]interface{}) of the list l
firstOfList(l, err) ==
    IF l.panic THEN Panicked
    ELSE IF Len(l.value.a) = 0 THEN Panicked
    ELSE IF l.value.a[1].t # "obj" THEN Panicked
    ELSE Returned(l.value.a[1], NoSession, err)

firstOf(r, key) == firstOfList(listOf(r, key), r.err)

\* Transactions: the type assertion only when err == nil
mapIfNoError(r) ==
    IF r.panic THEN Panicked
    ELSE IF r.err.kind = "nil"
    THEN IF r.data.t # "obj" THEN Panicked ELSE Returned(r.data, NoSession, r.err)
    ELSE Returned(JNull, NoSession, r.err)

\* Institution: the type assertion only when res != nil
mapIfData(r) ==
    IF r.panic THEN Panicked
    ELSE IF r.data.t # "null"
    THEN IF r.data.t # "obj" THEN Panicked ELSE Returned(r.data, NoSession, r.err)
    ELSE Returned(JNull, NoSession, r.err)

\* DeleteCustomer, DeleteAccount: the error alone
errorOf(r) == IF r.panic THEN Panicked ELSE Returned(JNull, NoSession, r.err)

\* challengeSession = parseChallengeSession(...); challengeSession.InstitutionId = id
\* (or LoginId), p being what the parser returned.
sessionOutcome_institutionOnly(p, contextType, id, err) ==
    IF p.panic THEN Panicked
    ELSE Returned(JNull, [p.session EXCEPT !.InstitutionId = id], err)

sessionOutcome(p, contextType, id, err) ==
    IF p.panic THEN Panicked
    ELSE Returned(JNull,
                  IF contextType = discoverAndAddType
                  THEN [p.session EXCEPT !.InstitutionId = id]
                  ELSE [p.session EXCEPT !.LoginId = id],
                  err)

\* The body of DiscoverAndAddAccounts and UpdateLoginAccount after the request.
loginOutcome(r, contextType, id, orders) ==
    IF r.panic THEN Panicked
    ELSE IF r.err.kind = "nil"
    THEN IF r.data.t # "obj" THEN Panicked
         ELSE IF Lookup(r.data, "accounts").t # "arr" THEN Panicked
         ELSE Returned(Lookup(r.data, "accounts"), NoSession, r.err)
    ELSE IF r.data.t # "null"
    THEN sessionOutcome(parseChallengeSession(contextType, r.data, r.err, orders), contextType, id, r.err)
    ELSE Returned(JNull, NoSession, r.err)

Credentials == <<Pair("username", "user"), Pair("password", "secret")>>

\* responses := make([]ChallengeResponse, len(session.Challenges)); responses[i] = ... for
\* each answer.  An empty slot is the zero ChallengeResponse.
ZeroResponse == [Answer |-> "", XMLNS |-> ""]

responsesOf_answersOnly(session) ==
    [i \in 1..Len(session.Answers) |-> [Answer |-> session.Answers[i], XMLNS |-> ChallengeXMLNS]]

responsesOf(session) ==
    [i \in 1..Len(session.Challenges) |->
        IF i <= Len(session.Answers)
        THEN [Answer |-> session.Answers[i], XMLNS |-> ChallengeXMLNS]
        ELSE ZeroResponse]

challengeHeadersOf(session) ==
    <<Pair("challengeNodeId", session.NodeId), Pair("challengeSessionId", session.SessionId)>>

\* The request RespondToChallenge makes for the session's context: none when the
\* context is neither of the two.
respondRequest(tok, session, env) ==
    CASE session.contextType = discoverAndAddType ->
            post(tok, "institutions/" \o session.InstitutionId \o "/logins",
                 InstitutionLoginMFA(responsesOf(session)), challengeHeadersOf(session), env)
      [] session.contextType = updateLoginType ->
            put(tok, "logins/" \o session.LoginId, InstitutionLoginMFA(responsesOf(session)),
                challengeHeadersOf(session), env)
      [] OTHER ->
            [panic |-> FALSE, token |-> tok, exchanged |-> FALSE, calls |-> <<>>, data |-> JNull, err |-> NoErr]

(***************************************************************************)
(* The inputs of MakeSamlAssertion: the clock reading, the key file and    *)
(* what http.PostForm returns.                                             *)
(***************************************************************************)
StatusLine(st) ==
    CASE st = 200 -> "200 OK"
      [] st = 302 -> "302 Found"
      [] st = 401 -> "401 Unauthorized"
      [] st = 500 -> "500 Internal Server Error"
      [] OTHER -> ToString(st)

Response(st, h, b) ==
    [err |-> FALSE, hasResp |-> TRUE, status |-> st, statusLine |-> StatusLine(st), wwwAuth |-> h, body |-> b]

\* A transport failure: PostForm returns a nil response and an error.
TransportFailure ==
    [err |-> TRUE, hasResp |-> FALSE, status |-> 0, statusLine |-> "", wwwAuth |-> <<>>, body |-> <<>>]

\* The redirect policy stopping the client: the one error that comes with a response.
RedirectFailure(h) == [Response(302, h, <<>>) EXCEPT !.err = TRUE]

HdrChars == {"r", "%", "3", "D", "+"}

Headers == SeqsUpTo(HdrChars, MaxHdrLen)

BodyKeys == {"oauth_token", "oauth_token_secret", "x"}

BodyVals == {"", "A", "B"}

TokenBodies == SeqsUpTo([k : BodyKeys, v : BodyVals], MaxPairs)

SamlPosts ==
    {TransportFailure}
        \cup {RedirectFailure(h) : h \in Headers}
        \cup {Response(st, h, <<>>) : st \in {401, 500}, h \in Headers}
        \cup {Response(200, <<>>, b) : b \in TokenBodies}

ClockBases == {0 - 600, 951781800, 1709250600, 1798761000}

ClockStride == 97

Clocks ==
    {[sec |-> b + ClockStride * k, nsec |-> n] :
        b \in ClockBases, k \in 0..ClockSteps, n \in {0, 1, 999999999}}

Clock0 == [sec |-> 1798761000, nsec |-> 0]

GoodPost == Response(200, <<>>, <<[k |-> "oauth_token", v |-> "A"], [k |-> "oauth_token_secret", v |-> "B"]>>)

(***************************************************************************)
(* MFA error bodies.  A shape gives the number of keys of each group and   *)
(* the number of choices after each question; a defect spoils one place of *)
(* the well-formed body of a shape.                                        *)
(***************************************************************************)
choiceOf(c) == JObj(<<Pair("val", JStr("v" \o ToString(c))), Pair("text", JStr("t" \o ToString(c)))>>)

questionOf(g, j) == "Q" \o ToString(g) \o "." \o ToString(j)

NoDefect == [kind |-> "none", g |-> 0, j |-> 0, c |-> 0]

choiceWith(d, g, j, c) ==
    IF <<d.g, d.j, d.c>> # <<g, j, c>> THEN choiceOf(c)
    ELSE CASE d.kind = "choiceNotMap" -> JStr("v" \o ToString(c))
           [] d.kind = "choiceNoVal" -> JObj(<<Pair("text", JStr("t" \o ToString(c)))>>)
           [] d.kind = "choiceNoText" -> JObj(<<Pair("val", JStr("v" \o ToString(c)))>>)
           [] d.kind = "choiceValNotText" ->
                JObj(<<Pair("val", JNum(ToString(c))), Pair("text", JStr("t" \o ToString(c)))>>)
           [] OTHER -> choiceOf(c)

vDataWith(d, g, j, n) ==
    IF <<d.g, d.j>> = <<g, j>> /\ d.kind = "valueNotSeq" THEN JStr(questionOf(g, j))
    ELSE JArr(<<IF <<d.g, d.j>> = <<g, j>> /\ d.kind = "questionNotText"
                THEN JNum("7") ELSE JStr(questionOf(g, j))>>
              \o [c \in 1..n |-> choiceWith(d, g, j, c)])

groupWith(d, g, nKeys, nChoices) ==
    IF d.g = g /\ d.kind = "groupNotMap" THEN JStr("group")
    ELSE JObj([j \in 1..nKeys |-> Pair("k" \o ToString(j), vDataWith(d, g, j, nChoices))])

bodyWith(d, shape) ==
    CASE d.kind = "bodyNotMap" -> JArr(<<>>)
      [] d.kind = "challengeMissing" -> JObj(<<Pair("errorInfo", JArr(<<>>))>>)
      [] d.kind = "challengeNotSeq" -> JObj(<<Pair("challenge", JStr("challenge"))>>)
      [] OTHER ->
            JObj(<<Pair("challenge",
                        JArr([g \in 1..Len(shape.keys) |-> groupWith(d, g, shape.keys[g], shape.choices)]))>>)

BodyShapes == [keys : SeqsUpTo(1..MaxKeys, MaxGroups), choices : 0..MaxChoices]

DefectsOf(shape) ==
    {NoDefect}
        \cup {[NoDefect EXCEPT !.kind = kd] : kd \in {"bodyNotMap", "challengeMissing", "challengeNotSeq"}}
        \cup {[kind |-> "groupNotMap", g |-> g, j |-> 0, c |-> 0] : g \in DOMAIN shape.keys}
        \cup UNION {{[kind |-> kd, g |-> g, j |-> j, c |-> 0] :
                        kd \in {"valueNotSeq", "questionNotText"}, j \in 1..shape.keys[g]} :
                    g \in DOMAIN shape.keys}
        \cup UNION {{[kind |-> kd, g |-> g, j |-> j, c |-> c] :
                        kd \in {"choiceNotMap", "choiceNoVal", "choiceNoText", "choiceValNotText"},
                        j \in 1..shape.keys[g], c \in 1..shape.choices} :
                    g \in DOMAIN shape.keys}

ChallengeHeaders == <<Pair("Challengenodeid", "node1"), Pair("Challengesessionid", "sess1")>>

(***************************************************************************)
(* What the world may answer in the session specification.                 *)
(***************************************************************************)
NotJSON == [valid |-> FALSE, j |-> JNull]

JSONBody(j) == [valid |-> TRUE, j |-> j]

AccountsBody == JObj(<<Pair("accounts", JArr(<<JObj(<<Pair("accountId", JNum("1"))>>)>>))>>)

EmptyAccountsBody == JObj(<<Pair("accounts", JArr(<<>>))>>)

InstitutionsBody == JObj(<<Pair("institution", JArr(<<JObj(<<Pair("institutionId", JNum("1"))>>)>>))>>)

ErrorInfoBody == bodyWith([NoDefect EXCEPT !.kind = "challengeMissing"], [keys |-> <<>>, choices |-> 0])

\* The sample of the spec: two groups, each one question with two choices.
MfaBody == bodyWith(NoDefect, [keys |-> <<1, 1>>, choices |-> 2])

\* One group whose mapping has two keys.
MfaTwoKeyBody == bodyWith(NoDefect, [keys |-> <<2>>, choices |-> 1])

\* A choice without its val field.
MfaNoValBody == bodyWith([kind |-> "choiceNoVal", g |-> 1, j |-> 1, c |-> 1], [keys |-> <<1>>, choices |-> 1])

\* One group with one question: a session with a single challenge.
MfaOneBody == bodyWith(NoDefect, [keys |-> <<1>>, choices |-> 1])

\* The bodies of an answer without a challenge, and all bodies.
DataBodies ==
    {NotJSON} \cup {JSONBody(j) : j \in {AccountsBody, EmptyAccountsBody, InstitutionsBody, ErrorInfoBody}}

ApiBodies ==
    DataBodies \cup {JSONBody(j) : j \in {MfaBody, MfaTwoKeyBody, MfaOneBody, MfaNoValBody}}

\* A success carries a body without a challenge (with one, it is read as ErrorInfoBody
\* is: an object without the key asked for); an HTTP error carries any body.
ApiOutcomes ==
    {[kind |-> "ok", body |-> b, headers |-> <<>>] : b \in DataBodies}
        \cup {[kind |-> "http", body |-> b, headers |-> ChallengeHeaders] : b \in ApiBodies}
        \cup {[kind |-> "other", body |-> NotJSON, headers |-> <<>>]}

Api0 == [kind |-> "ok", body |-> JSONBody(AccountsBody), headers |-> <<>>]

RejectedPost == Response(401, <<"r", "%", "3", "D", "%", "2", "2", "t", "%", "2", "2">>, <<>>)

NoSecretPost == Response(200, <<>>, <<[k |-> "oauth_token", v |-> "A"]>>)

\* The answers that never reach the API call, and those that do.
Envs(tok) ==
    IF tok.isNil
    THEN {[t |-> Clock0, key |-> "unreadable", post |-> GoodPost, api |-> Api0]}
            \cup {[t |-> Clock0, key |-> "ok", post |-> p, api |-> Api0] :
                     p \in {TransportFailure, RejectedPost, NoSecretPost}}
            \cup {[t |-> Clock0, key |-> "ok", post |-> GoodPost, api |-> o] : o \in ApiOutcomes}
    ELSE {[t |-> Clock0, key |-> "ok", post |-> GoodPost, api |-> o] : o \in ApiOutcomes}

(***************************************************************************)
(* The session before any operation, which the function specifications     *)
(* leave alone.                                                            *)
(***************************************************************************)
Env0 == [t |-> Clock0, key |-> "ok", post |-> GoodPost, api |-> Api0]

\* The answers of the world to an operation of the session: none is asked for when
\* there is no configuration.
Worlds == IF NoConfiguration THEN {Env0} ELSE Envs(oAuthToken)

\* For the operations that hand on what request returns without looking into the
\* body: one answer of the API for each branch of request.
BranchOutcomes ==
    {[kind |-> "ok", body |-> JSONBody(AccountsBody), headers |-> <<>>],
     [kind |-> "ok", body |-> NotJSON, headers |-> <<>>],
     [kind |-> "http", body |-> JSONBody(MfaBody), headers |-> ChallengeHeaders],
     [kind |-> "http", body |-> NotJSON, headers |-> ChallengeHeaders],
     [kind |-> "other", body |-> NotJSON, headers |-> <<>>]}

BranchWorlds == {env \in Worlds : env.api \in BranchOutcomes}

NoOp ==
    [op |-> "none", arg |-> "", answers |-> <<>>, configured |-> FALSE, tokenBefore |-> NilToken, env |-> Env0,
     exchanged |-> FALSE, calls |-> <<>>, panic |-> FALSE, value |-> JNull, session |-> NoSession,
     err |-> NoErr]

NoInput == [none |-> TRUE]

\* A session configured with a new Configuration.
SessionIdle ==
    /\ SessionConfiguration = Configuration(NilToken)
    /\ configurations = {}
    /\ last = NoOp
    /\ held = NoSession

FunctionsIdle ==
    /\ fin = NoInput
    /\ fout = [done |-> FALSE]

(***************************************************************************)
(* SpecSaml: MakeSamlAssertion applied to one input.                       *)
(***************************************************************************)
InitSaml ==
    /\ SessionIdle
    /\ \/ \E t \in Clocks : fin = [t |-> t, key |-> "ok", post |-> GoodPost]
       \/ \E p \in SamlPosts : fin = [t |-> Clock0, key |-> "ok", post |-> p]
       \/ \E k \in KeyOutcomes : fin = [t |-> Clock0, key |-> k, post |-> GoodPost]
    /\ fout = [done |-> FALSE]

CallMakeSamlAssertion ==
    /\ ~fout.done
    /\ fout' = [done |-> TRUE, r |-> MakeSamlAssertion(fin.t, fin.key, fin.post)]
    /\ UNCHANGED <<configurations, SessionConfiguration, last, held, fin>>

NextSaml == CallMakeSamlAssertion

SpecSaml == InitSaml /\ [][NextSaml]_vars

\* The assertion was built and the POST was sent.
SamlPosted == fout.done /\ fout.r.posted

HasKey(body, key) == \E i \in DOMAIN body : body[i].k = key

\* C2: a 200 answer whose body lacks oauth_token or oauth_token_secret makes the
\* exchange fail with an error; no token with an empty field comes with a nil error.
C2_MalformedBodyFails ==
    (/\ SamlPosted
     /\ ~fin.post.err
     /\ fin.post.status = 200
     /\ ~(HasKey(fin.post.body, "oauth_token") /\ HasKey(fin.post.body, "oauth_token_secret")))
        => /\ ~fout.r.panic
           /\ fout.r.err.kind # "nil"

\* C3: every non-200 status and every transport failure of the POST returns an error
\* value carrying the status line and the URL-decoded WWW-Authenticate header, and the
\* process does not abort.
C3_RejectionReturnsError ==
    (/\ SamlPosted
     /\ (fin.post.err \/ fin.post.status # 200))
        => /\ ~fout.r.panic
           /\ fout.r.err.kind = "errors.New"
           /\ (fin.post.hasResp /\ ~EscapeError(fin.post.wwwAuth))
                => fout.r.err.msg = fin.post.statusLine \o " " \o Concat(unescapeFrom(fin.post.wwwAuth, 1))

\* The day number of a civil date, the inverse of civilFromDays.
daysFromCivil(y0, m, d) ==
    LET y == IF m <= 2 THEN y0 - 1 ELSE y0
        era == y \div 400
        yoe == y - era * 400
        doy == (153 * (IF m > 2 THEN m - 3 ELSE m + 9) + 2) \div 5 + d - 1
        doe == yoe * 365 + yoe \div 4 - yoe \div 100 + doy
    IN era * 146097 + doe - 719468

\* The Unix second a rendered time names.
UnixOf(f) == daysFromCivil(f.year, f.month, f.day) * SecondsPerDay + f.hour * 3600 + f.min * 60 + f.sec

\* Rendered times compare as their texts do: field by field, most significant first.
FieldsOf(f) == <<f.year, f.month, f.day, f.hour, f.min, f.sec>>

RenderedBefore(f, g) ==
    \E i \in 1..6 :
        /\ FieldsOf(f)[i] < FieldsOf(g)[i]
        /\ \A j \in 1..(i - 1) : FieldsOf(f)[j] = FieldsOf(g)[j]

\* C9: every assertion has timeBefore < timeNow < timeAfter in its rendered form, timeNow
\* being the whole second of the one clock reading, timeBefore exactly 5 minutes before
\* it and timeAfter exactly 10 minutes after it.
C9_ValidityWindow ==
    fout.done =>
        LET a == fout.r.a IN
        /\ UnixOf(a.TimeNow) = fin.t.sec
        /\ UnixOf(a.TimeBefore) = UnixOf(a.TimeNow) - 300
        /\ UnixOf(a.TimeAfter) = UnixOf(a.TimeNow) + 600
        /\ RenderedBefore(a.TimeBefore, a.TimeNow)
        /\ RenderedBefore(a.TimeNow, a.TimeAfter)
        /\ \A f \in {a.TimeBefore, a.TimeNow, a.TimeAfter} :
            /\ Len(f.text) = 24
            /\ f.month \in 1..12 /\ f.day \in 1..31
            /\ f.hour \in 0..23 /\ f.min \in 0..59 /\ f.sec \in 0..59

\* An assertion read at a fraction of a second whose window spans a change of year.
C9_Witness ==
    /\ fout.done
    /\ fin.t.nsec = 999999999
    /\ fout.r.a.TimeBefore.year < fout.r.a.TimeAfter.year
    /\ fout.r.a.TimeNow.text = "2027-01-01T00:02:56.000Z"

(***************************************************************************)
(* SpecParse: parseChallengeSession applied to one error body.             *)
(***************************************************************************)
InitParse ==
    /\ SessionIdle
    /\ \E shape \in BodyShapes :
         \E d \in DefectsOf(shape), ct \in {updateLoginType, discoverAndAddType} :
            fin = [contextType |-> ct, data |-> bodyWith(d, shape),
                   err |-> HTTPExecuteError(ChallengeHeaders), defect |-> d.kind]
    /\ fout = [done |-> FALSE]

CallParseChallengeSession ==
    /\ ~fout.done
    /\ \E orders \in IterOrders(fin.data) :
         fout' = [done |-> TRUE, r |-> parseChallengeSession(fin.contextType, fin.data, fin.err, orders)]
    /\ UNCHANGED <<configurations, SessionConfiguration, last, held, fin>>

NextParse == CallParseChallengeSession

SpecParse == InitParse /\ [][NextParse]_vars

\* The shape the parser expects of a body (spec 4.6), stated on the data alone.
ChoiceWellFormed(x) == x.t = "obj" /\ Lookup(x, "val").t = "str" /\ Lookup(x, "text").t = "str"

VDataWellFormed(v) ==
    /\ v.t = "arr"
    /\ Len(v.a) >= 1
    /\ v.a[1].t = "str"
    /\ \A i \in 2..Len(v.a) : ChoiceWellFormed(v.a[i])

GroupWellFormed(c) == c.t = "obj" /\ \A i \in DOMAIN c.o : VDataWellFormed(c.o[i].v)

BodyWellFormed(data) ==
    /\ data.t = "obj"
    /\ Lookup(data, "challenge").t = "arr"
    /\ \A g \in DOMAIN Lookup(data, "challenge").a : GroupWellFormed(Lookup(data, "challenge").a[g])

\* The challenges of a well-formed body in the order of the source text.
challengeInSource(v) ==
    [Question |-> v.a[1].s,
     Choices |-> [i \in 1..(Len(v.a) - 1) |->
                    [Value |-> Lookup(v.a[i + 1], "val").s, Text |-> Lookup(v.a[i + 1], "text").s]]]

RECURSIVE SourceOrder(_)
SourceOrder(groups) ==
    IF groups = <<>> THEN <<>>
    ELSE [i \in DOMAIN Head(groups).o |-> challengeInSource(Head(groups).o[i].v)] \o SourceOrder(Tail(groups))

\* C7: for every well-formed body, groups with more than one key included, the parser
\* yields the challenges and their choices in the order of the source body, the same on
\* every run.
C7_SourceOrder ==
    (fout.done /\ BodyWellFormed(fin.data))
        => /\ ~fout.r.panic
           /\ fout.r.session.Challenges = SourceOrder(Lookup(fin.data, "challenge").a)

\* C8: a malformed challenge body makes parsing fail with an error result: the process
\* does not abort and no challenge session comes back.
C8_MalformedIsError ==
    (fout.done /\ ~BodyWellFormed(fin.data))
        => /\ ~fout.r.panic
           /\ fout.r.session.isNil

(***************************************************************************)
(* Spec: the package after it is loaded and the public operations a caller *)
(* runs on it, one after the other.  Each action is one whole operation:   *)
(* the request it makes, the token exchange inside it and what it does     *)
(* with the answer.                                                        *)
(***************************************************************************)
\* var SessionConfiguration *Configuration: nil until Configure or Scope.
Init ==
    /\ SessionConfiguration = NilConfiguration
    /\ configurations = {}
    /\ last = NoOp
    /\ held = NoSession
    /\ FunctionsIdle

\* The operation has run: r is the outcome of its request, res what it returns.
Finish(op, arg, answers, env, r, res) ==
    /\ SessionConfiguration' = IF NoConfiguration THEN SessionConfiguration ELSE Configuration(r.token)
    /\ configurations' = IF NoConfiguration \/ r.token.isNil THEN configurations
                          ELSE configurations \cup {r.token}
    /\ last' = [op |-> op, arg |-> arg, answers |-> answers, configured |-> ~NoConfiguration,
                tokenBefore |-> oAuthToken, env |-> env,
                exchanged |-> r.exchanged, calls |-> r.calls, panic |-> res.panic, value |-> res.value,
                session |-> res.session, err |-> res.err]
    /\ held' = IF res.session.isNil THEN held ELSE res.session
    /\ UNCHANGED <<fin, fout>>

NoRequest(tok) ==
    [panic |-> FALSE, token |-> tok, exchanged |-> FALSE, calls |-> <<>>, data |-> JNull, err |-> NoErr]

\* The session has taken the pointer p, by the call op.
Installed(op, p) ==
    /\ SessionConfiguration' = p
    /\ last' = [NoOp EXCEPT !.op = op, !.configured = ~NoConfiguration, !.tokenBefore = oAuthToken]
    /\ UNCHANGED <<configurations, held, fin, fout>>

\* The pointers a caller can pass to Configure: nil, or a Configuration it has built,
\* for this call or before.  A Configuration holds no token until a request has
\* exchanged one while it was installed, and keeps the token it has from then on
\* (request writes the token only when it is nil, client.go:20-21), so that a
\* Configuration is told from the others by its token alone: the installed one is
\* among them with the token it has.
Pointers == {NilConfiguration, Configuration(NilToken)} \cup {Configuration(tok) : tok \in configurations}

\* Configure(configuration) stores the pointer it is given.
Configure ==
    /\ ~last.panic
    /\ \E p \in Pointers : Installed("Configure", p)

\* Scope(id) builds an empty Configuration when there is none and writes CustomerId,
\* which no request of the model reads.
Scope ==
    /\ ~last.panic
    /\ Installed("Scope", IF NoConfiguration THEN Configuration(NilToken) ELSE SessionConfiguration)

FinishList(op, arg, env, r, key) == Finish(op, arg, <<>>, env, r, listOf(r, key))

Accounts ==
    /\ ~last.panic
    /\ \E env \in Worlds :
         FinishList("Accounts", "", env, get(oAuthToken, "accounts", env), "accounts")

FinishFirst(op, arg, env, r, key) == Finish(op, arg, <<>>, env, r, firstOf(r, key))

Account ==
    /\ ~last.panic
    /\ \E env \in Worlds, accountId \in {"acct1"} :
         FinishFirst("Account", accountId, env, get(oAuthToken, "accounts/" \o accountId, env), "accounts")

LoginAccounts ==
    /\ ~last.panic
    /\ \E env \in Worlds, loginId \in {"login1"} :
         FinishList("LoginAccounts", loginId, env,
                    get(oAuthToken, "logins/" \o loginId \o "/accounts", env), "accounts")

FinishMapIfNoError(op, arg, env, r) == Finish(op, arg, <<>>, env, r, mapIfNoError(r))

Transactions ==
    /\ ~last.panic
    /\ \E env \in Worlds, accountId \in {"acct1"} :
         FinishMapIfNoError("Transactions", accountId, env,
                            get(oAuthToken, "accounts/" \o accountId \o "/transactions", env))

Institutions ==
    /\ ~last.panic
    /\ \E env \in Worlds :
         FinishList("Institutions", "", env, get(oAuthToken, "institutions", env), "institution")

FinishMapIfData(op, arg, env, r) == Finish(op, arg, <<>>, env, r, mapIfData(r))

Institution ==
    /\ ~last.panic
    /\ \E env \in Worlds, institutionId \in {"inst1"} :
         FinishMapIfData("Institution", institutionId, env,
                         get(oAuthToken, "institutions/" \o institutionId, env))

FinishError(op, arg, env, r) == Finish(op, arg, <<>>, env, r, errorOf(r))

DeleteCustomer ==
    /\ ~last.panic
    /\ \E env \in BranchWorlds :
         FinishError("DeleteCustomer", "", env, request(oAuthToken, DELETE, "customers", <<>>, <<>>, env))

DeleteAccount ==
    /\ ~last.panic
    /\ \E env \in BranchWorlds, accountId \in {"acct1"} :
         FinishError("DeleteAccount", accountId, env,
                     request(oAuthToken, DELETE, "accounts/" \o accountId, <<>>, <<>>, env))

\* The login call after its request r; the runtime picks the map iteration orders.
FinishLogin(op, id, env, r, contextType) ==
    \E orders \in IterOrders(r.data) :
        Finish(op, id, <<>>, env, r, loginOutcome(r, contextType, id, orders))

DiscoverAndAddAccounts ==
    /\ ~last.panic
    /\ \E env \in Worlds, institutionId \in {"inst1"} :
         FinishLogin("DiscoverAndAddAccounts", institutionId, env,
                     post(oAuthToken, "institutions/" \o institutionId \o "/logins", InstitutionLogin(Credentials), <<>>, env),
                     discoverAndAddType)

UpdateLoginAccount ==
    /\ ~last.panic
    /\ \E env \in Worlds, loginId \in {"login1"} :
         FinishLogin("UpdateLoginAccount", loginId, env,
                     put(oAuthToken, "logins/" \o loginId \o "?refresh=true", InstitutionLogin(Credentials), <<>>, env),
                     updateLoginType)

AnswerVals == {"a", "b"}

FinishRespond(answers, env, r) ==
    Finish("RespondToChallenge", "", answers, env, r,
           IF r.panic THEN Panicked ELSE Returned(r.data, NoSession, r.err))

\* RespondToChallenge on the session as the caller filled it.
RespondWith(session) ==
    IF Len(session.Answers) > Len(session.Challenges)
    THEN \* responses[i] with i beyond len(session.Challenges): index out of range
         Finish("RespondToChallenge", "", session.Answers, Env0, NoRequest(oAuthToken), Panicked)
    ELSE \E env \in BranchWorlds :
           FinishRespond(session.Answers, env, respondRequest(oAuthToken, session, env))

\* The caller fills the Answers of the session it holds and submits it.
RespondToChallenge ==
    /\ ~last.panic
    /\ ~held.isNil
    /\ \E answers \in SeqsUpTo(AnswerVals, MaxAnswers) :
         RespondWith([held EXCEPT !.Answers = answers])

Next ==
    \/ Configure
    \/ Scope
    \/ Accounts
    \/ Account
    \/ LoginAccounts
    \/ Transactions
    \/ Institutions
    \/ Institution
    \/ DeleteCustomer
    \/ DeleteAccount
    \/ DiscoverAndAddAccounts
    \/ UpdateLoginAccount
    \/ RespondToChallenge

Spec == Init /\ [][Next]_vars

(***************************************************************************)
(* Properties of the session specification.                                *)
(***************************************************************************)
IsOperation(l) == l.op \notin {"none", "Configure", "Scope"}

IsLogin(l) == l.op \in {"DiscoverAndAddAccounts", "UpdateLoginAccount"}

SamlCallsOf(l) == {i \in DOMAIN l.calls : l.calls[i].kind = "saml"}

ApiCallsOf(l) == {i \in DOMAIN l.calls : l.calls[i].kind = "api"}

\* What the world answered, read off the recorded inputs of the operation.
ExchangeRejected(l) ==
    l.configured /\ l.tokenBefore.isNil /\ l.env.key = "ok" /\ l.env.post.hasResp /\ l.env.post.status # 200

ExchangeSucceeded(l) ==
    l.configured /\ l.tokenBefore.isNil /\ l.env.key = "ok" /\ ~l.env.post.err /\ l.env.post.status = 200

TokenAvailable(l) == l.configured /\ (~l.tokenBefore.isNil \/ ExchangeSucceeded(l))

HasChallenge(body) == body.valid /\ body.j.t = "obj" /\ \E i \in DOMAIN body.j.o : body.j.o[i].k = "challenge"

\* The API rejected the call with an MFA-required error.
MfaRequired(l) == TokenAvailable(l) /\ l.env.api.kind = "http" /\ HasChallenge(l.env.api.body)

\* The call failed with an error that is not MFA-required: the token endpoint
\* rejected the assertion, or the API answered an error status without a challenge.
NonMfaError(l) ==
    \/ ExchangeRejected(l)
    \/ TokenAvailable(l) /\ l.env.api.kind = "http" /\ ~HasChallenge(l.env.api.body)

\* C1: when the token exchange inside request fails with an error, the session token
\* is left unset (so the next request starts a new exchange).
C1_FailedExchangeLeavesTokenUnset ==
    (IsOperation(last) /\ last.exchanged /\ ~last.panic /\ last.err.kind = "errors.New")
        => oAuthToken.isNil

\* C4 as stated: a public operation makes at most one outbound network call, the
\* session token being set or not.
C4_AtMostOneNetworkCall == IsOperation(last) => Len(last.calls) <= 1

\* C4 as amended: a public operation makes at most one API call, preceded by at most
\* one token-exchange call, which it makes only when it finds the session token unset;
\* with the token set it makes at most one network call.
C4_OneApiCallAfterExchange ==
    IsOperation(last) =>
        /\ Cardinality(ApiCallsOf(last)) <= 1
        /\ Cardinality(SamlCallsOf(last)) <= 1
        /\ SamlCallsOf(last) # {} => last.tokenBefore.isNil /\ SamlCallsOf(last) = {1}
        /\ ~last.tokenBefore.isNil => Len(last.calls) <= 1

\* An operation that found the token unset and made both calls.
C4_Witness ==
    /\ last.op = "Accounts"
    /\ ~last.panic
    /\ last.tokenBefore.isNil
    /\ Len(last.calls) = 2
    /\ last.calls[1].kind = "saml"
    /\ last.calls[2].kind = "api"

\* C5: a login call returns accounts and no challenge session on success, a challenge
\* session only when it was rejected with an MFA-required error, and on any other
\* error the error with no challenge session, without aborting.
C5_LoginStateMachine ==
    IsLogin(last) =>
        /\ (~last.panic /\ last.err.kind = "nil") => (last.session.isNil /\ last.value.t = "arr")
        /\ ~last.session.isNil => MfaRequired(last)
        /\ NonMfaError(last) => (~last.panic /\ last.err.kind # "nil" /\ last.session.isNil)

\* C6: a challenge session carries the context of the login call that created it and
\* its one resume identifier: discover-and-add with InstitutionId set and LoginId empty
\* from DiscoverAndAddAccounts, update-login with LoginId set and InstitutionId empty
\* from UpdateLoginAccount.  RespondToChallenge resubmits it with exactly one API call,
\* POST institutions/{InstitutionId}/logins or PUT logins/{LoginId}, with the session's
\* ids as the challenge headers.
C6_SessionContext ==
    /\ (last.op = "DiscoverAndAddAccounts" /\ ~last.session.isNil)
          => /\ last.session.contextType = discoverAndAddType
             /\ last.session.InstitutionId = last.arg
             /\ last.session.InstitutionId # ""
             /\ last.session.LoginId = ""
    /\ (last.op = "UpdateLoginAccount" /\ ~last.session.isNil)
          => /\ last.session.contextType = updateLoginType
             /\ last.session.LoginId = last.arg
             /\ last.session.LoginId # ""
             /\ last.session.InstitutionId = ""
    /\ (last.op = "RespondToChallenge" /\ TokenAvailable(last) /\ Len(last.answers) <= Len(held.Challenges))
          => /\ Cardinality(ApiCallsOf(last)) = 1
             /\ \A i \in ApiCallsOf(last) :
                  /\ held.contextType = discoverAndAddType
                        => /\ last.calls[i].method = POST
                           /\ last.calls[i].url = BaseURL \o "institutions/" \o held.InstitutionId \o "/logins"
                  /\ held.contextType = updateLoginType
                        => /\ last.calls[i].method = PUT
                           /\ last.calls[i].url = BaseURL \o "logins/" \o held.LoginId
                  /\ \E h \in DOMAIN last.calls[i].headers :
                        last.calls[i].headers[h] = Pair("challengeSessionId", held.SessionId)
                  /\ \E h \in DOMAIN last.calls[i].headers :
                        last.calls[i].headers[h] = Pair("challengeNodeId", held.NodeId)

\* A session of UpdateLoginAccount, with its LoginId, resubmitted with the one PUT.
C6_Witness ==
    /\ last.op = "RespondToChallenge"
    /\ ~last.panic
    /\ held.contextType = updateLoginType
    /\ held.LoginId = "login1"
    /\ held.InstitutionId = ""
    /\ Len(last.calls) = 1
    /\ last.calls[1].method = PUT
    /\ last.calls[1].url = BaseURL \o "logins/login1"

\* C10: in a sequence of requests, only a request that finds the session token unset
\* attempts a token exchange; a successful exchange stores the token and the secret of
\* its one response, and every later request signs with that same pair and makes no
\* further exchange.
C10_TokenAcquiredOnce ==
    [][IsOperation(last') =>
        /\ (last'.exchanged \/ SamlCallsOf(last') # {}) => oAuthToken.isNil
        /\ ~oAuthToken.isNil =>
              /\ oAuthToken' = oAuthToken
              /\ \A i \in ApiCallsOf(last') : last'.calls[i].token = oAuthToken
        /\ (last'.exchanged /\ ExchangeSucceeded(last')) =>
              /\ oAuthToken' = AccessToken(valuesGet(last'.env.post.body, "oauth_token"),
                                           valuesGet(last'.env.post.body, "oauth_token_secret"))
              /\ \A i \in ApiCallsOf(last') : last'.calls[i].token = oAuthToken'
       ]_vars

\* A request signed with the pair of an earlier exchange, without a new exchange.
C10_Witness ==
    /\ last.op = "Transactions"
    /\ ~last.panic
    /\ last.tokenBefore = AccessToken("A", "B")
    /\ oAuthToken = AccessToken("A", "B")
    /\ ~last.exchanged
    /\ Len(last.calls) = 1
    /\ last.calls[1].token = AccessToken("A", "B")

\* The response elements of a submitted payload, in order: the lines between the
\* opening and the closing challengeResponses tag.
SubmittedResponses(call) == SubSeq(call.payload, 3, Len(call.payload) - 2)

FilledSlot(answer) ==
    "          <v11:response xmlns:v11=\"http://schema.intuit.com/platform/fdatafeed/challenge/v1\">"
        \o answer \o "</v11:response>"

EmptySlot == "          <v11:response xmlns:v11=\"\"></v11:response>"

\* C11: RespondToChallenge builds one response slot per challenge of the session and
\* puts Answers[i] in slot i.  With no more answers than challenges, the call it
\* submits carries one response per challenge, response i with Answers[i] for every
\* answer and the other responses empty, and it submits that call whenever the session
\* has a token to sign it with.  With more answers than challenges it aborts and no
\* network call is made.
C11_OneSlotPerChallenge ==
    (last.op = "RespondToChallenge")
        => IF Len(last.answers) > Len(held.Challenges)
           THEN last.panic /\ last.calls = <<>>
           ELSE /\ TokenAvailable(last) => Cardinality(ApiCallsOf(last)) = 1
                /\ \A c \in ApiCallsOf(last) :
                      /\ last.calls[c].method = (IF held.contextType = updateLoginType THEN PUT ELSE POST)
                      /\ Len(SubmittedResponses(last.calls[c])) = Len(held.Challenges)
                      /\ \A i \in 1..Len(held.Challenges) :
                            SubmittedResponses(last.calls[c])[i] =
                                IF i <= Len(last.answers) THEN FilledSlot(last.answers[i]) ELSE EmptySlot

\* A session with two challenges answered with one answer: the submitted call has the
\* answer in the first response and an empty second response.
C11_Witness ==
    /\ last.op = "RespondToChallenge"
    /\ ~last.panic
    /\ Len(held.Challenges) = 2
    /\ last.answers = <<"b">>
    /\ Cardinality(ApiCallsOf(last)) = 1
    /\ \E c \in ApiCallsOf(last) :
          SubmittedResponses(last.calls[c]) = <<FilledSlot("b"), EmptySlot>>

====
